---- MODULE Spec2Model ----
(***************************************************************************)
(* Model of pkg/processor/service/ingress.go: the processor that turns a   *)
(* networking.k8s.io/v1 Ingress into a Helm template plus a values tree.   *)
(*                                                                         *)
(* A Go string is modelled as the sequence of its pieces: one piece per    *)
(* character where the code inspects characters (object names, service     *)
(* names), one piece per literal where the code only concatenates (format  *)
(* strings).  A nil pointer / absent value is None, a present one Some(v). *)
(***************************************************************************)
EXTENDS Integers, Sequences, FiniteSets, TLC

VARIABLES appMeta, ingressTempl, obj, pc, ing, av, meta, name, shortNameCamel,
          values, spec, result, calls, written

vars == <<appMeta, ingressTempl, obj, pc, ing, av, meta, name, shortNameCamel,
          values, spec, result, calls, written>>

\* ------------------------------------------------------------------ bounds
MaxBodyLen == 2
MaxRules == 2
MaxPaths == 2

Procs == {1, 2}

\* ------------------------------------------------------- optional values
None == <<>>
Some(v) == <<v>>
IsSome(o) == Len(o) = 1
Val(o) == o[1]

\* ------------------------------------------------------------- strings
Lower == <<"a", "b", "c", "d", "e", "f", "g", "h", "i", "j", "k", "l", "m",
           "n", "o", "p", "q", "r", "s", "t", "u", "v", "w", "x", "y", "z">>
Upper == <<"A", "B", "C", "D", "E", "F", "G", "H", "I", "J", "K", "L", "M",
           "N", "O", "P", "Q", "R", "S", "T", "U", "V", "W", "X", "Y", "Z">>
Digits == {"0", "1", "2", "3", "4", "5", "6", "7", "8", "9"}

IsLow(c) == \E i \in 1..26 : Lower[i] = c
IsCap(c) == \E i \in 1..26 : Upper[i] = c
IsNum(c) == c \in Digits
ToUpper(c) == IF IsLow(c) THEN Upper[CHOOSE i \in 1..26 : Lower[i] = c] ELSE c
ToLower(c) == IF IsCap(c) THEN Lower[CHOOSE i \in 1..26 : Upper[i] = c] ELSE c

HasPrefix(s, prefix) ==
    /\ Len(prefix) <= Len(s)
    /\ SubSeq(s, 1, Len(prefix)) = prefix

\* strings.TrimPrefix
TrimPrefix(s, prefix) ==
    IF HasPrefix(s, prefix) THEN SubSeq(s, Len(prefix) + 1, Len(s)) ELSE s

ControllerManagerPrefix ==
    <<"c", "o", "n", "t", "r", "o", "l", "l", "e", "r", "-",
      "m", "a", "n", "a", "g", "e", "r", "-">>

\* strcase.ToLowerCamel: one pass over the bytes carrying capNext.  Letters
\* are written (upper-cased when capNext, lower-cased at index 0), digits are
\* written and set capNext, '_', ' ', '-' and '.' are dropped and set capNext,
\* any other byte is dropped and clears capNext.
RECURSIVE CamelFrom(_, _, _)
CamelFrom(s, i, capNext) ==
    IF i > Len(s) THEN <<>>
    ELSE LET c == s[i]
             v == IF capNext THEN ToUpper(c)
                  ELSE IF i = 1 THEN ToLower(c)
                  ELSE c
         IN  IF IsCap(c) \/ IsLow(c) THEN <<v>> \o CamelFrom(s, i + 1, FALSE)
             ELSE IF IsNum(c) THEN <<v>> \o CamelFrom(s, i + 1, TRUE)
             ELSE CamelFrom(s, i + 1, c \in {"_", " ", "-", "."})

\* A camel-casing that drops digits like any other non-letter.
ToLowerCamelDropDigits(s) == CamelFrom(SelectSeq(s, LAMBDA c : ~IsNum(c)), 1, FALSE)

ToLowerCamel(s) == CamelFrom(s, 1, FALSE)

\* appMeta.TrimName: strips the application's common prefix from a name.
TrimName(am, objName) == TrimPrefix(objName, am.commonPrefix)

\* appMeta.TemplatedName: the template expression for an object's chart name.
TemplatedName(am, objName) ==
    <<"{{ include \"">> \o am.chartName \o <<".fullname\" . }}-">>
        \o TrimName(am, objName)

\* lines 53-55: the three names Process derives from the object's name.
ShortName(trimmed) == TrimPrefix(trimmed, ControllerManagerPrefix)

\* A key derived from the trimmed name, controller-manager- left in.
DeriveShortNameCamelNoStrip(trimmed) == ToLowerCamel(trimmed)

DeriveShortNameCamel(trimmed) == ToLowerCamel(ShortName(trimmed))

\* ------------------------------------------------------------ values tree
\* helmify.Values is a map[string]interface{}: a function from strings to
\* nodes, a node being a bool leaf, a string leaf or a nested map.
EmptyValues == <<>>
BoolLeaf(b) == [t |-> "bool", v |-> b]
StringLeaf(s) == [t |-> "string", v |-> s]
MapNode(m) == [t |-> "map", v |-> m]

Put(m, k, n) == [x \in (DOMAIN m) \cup {k} |-> IF x = k THEN n ELSE m[x]]

\* unstructured.SetNestedField with its error dropped (`_ =`): descends
\* through fields, creating missing maps; when an intermediate value is not
\* a map the call fails and the tree is left as it was.
RECURSIVE CanSetNested(_, _)
CanSetNested(m, fields) ==
    \/ Len(fields) = 1
    \/ Head(fields) \notin DOMAIN m
    \/ /\ m[Head(fields)].t = "map"
       /\ CanSetNested(m[Head(fields)].v, Tail(fields))

RECURSIVE SetNestedNoCopy(_, _, _)
SetNestedNoCopy(m, node, fields) ==
    IF Len(fields) = 1 THEN Put(m, Head(fields), node)
    ELSE LET sub == IF Head(fields) \in DOMAIN m
                    THEN m[Head(fields)].v ELSE EmptyValues
         IN  Put(m, Head(fields), MapNode(SetNestedNoCopy(sub, node, Tail(fields))))

SetNestedField(m, node, fields) ==
    IF CanSetNested(m, fields) THEN SetNestedNoCopy(m, node, fields) ELSE m

\* unstructured.SetNestedStringMap: a nil or empty map is stored as an empty
\* map node, otherwise one string leaf per entry.
StringMapNode(a) ==
    MapNode(IF IsSome(a) THEN [k \in DOMAIN Val(a) |-> StringLeaf(Val(a)[k])]
            ELSE EmptyValues)

SetNestedStringMap(m, a, fields) == SetNestedField(m, StringMapNode(a), fields)

IngressSeg == <<"ingress">>
EnabledSeg == <<"enabled">>
ClassNameSeg == <<"className">>
AnnotationsSeg == <<"annotations">>

\* Reads of a tree along a path; None when the path is absent.
RECURSIVE NestedField(_, _)
NestedField(m, fields) ==
    IF Head(fields) \notin DOMAIN m THEN None
    ELSE IF Len(fields) = 1 THEN Some(m[Head(fields)])
    ELSE IF m[Head(fields)].t # "map" THEN None
    ELSE NestedField(m[Head(fields)].v, Tail(fields))

\* -------------------------------------------------------------- documents
ingressGVC == [Group |-> "networking.k8s.io", Version |-> "v1", Kind |-> "Ingress"]

OtherGVKs ==
    { [Group |-> "", Version |-> "v1", Kind |-> "Service"],
      [Group |-> "networking.k8s.io", Version |-> "v1beta1", Kind |-> "Ingress"],
      [Group |-> "extensions", Version |-> "v1", Kind |-> "Ingress"] }

NameChars == {"a", "b", "1", "-", "."}
Bodies == UNION { [1..n -> NameChars] : n \in 1..MaxBodyLen }

MyPrefix == <<"m", "y", "-">>
AppIngress == <<"a", "p", "p", "-", "i", "n", "g", "r", "e", "s", "s">>
FixtureName == ControllerManagerPrefix \o AppIngress
AppSvc == <<"a", "p", "p", "-", "s", "v", "c">>
Nginx == <<"n", "g", "i", "n", "x">>

GeneratedNames ==
    { a \o c \o b : a \in {<<>>, MyPrefix}, c \in {<<>>, ControllerManagerPrefix},
                    b \in Bodies }
RawNames == GeneratedNames \cup {FixtureName, AppIngress}

AppMetas ==
    { [chartName |-> <<"chart">>, commonPrefix |-> cp] :
        cp \in {<<>>, MyPrefix, ControllerManagerPrefix} }

\* Untyped (JSON-keyed) backends, paths, rules and specs.
RawService(n) == [name |-> n, port |-> [number |-> 80]]
RawBackends ==
    { [service |-> Some(RawService(AppSvc)), resource |-> None],
      [service |-> None, resource |-> Some([kind |-> "Bucket", name |-> AppSvc])] }
RawPaths == { [path |-> "/", pathType |-> "Prefix", backend |-> b] : b \in RawBackends }
RawPathSeqs == UNION { [1..n -> RawPaths] : n \in 0..MaxPaths }
RawRules ==
    { [host |-> "example.com", http |-> None] }
      \cup { [host |-> "example.com", http |-> Some([paths |-> ps])] : ps \in RawPathSeqs }
RawRuleSeqs == UNION { [1..n -> RawRules] : n \in 0..MaxRules }
ClassNames == {None, Some(<<>>), Some(Nginx)}
AnnotationMaps ==
    { None,
      Some([k \in {<<"cert-manager.io/issuer">>} |-> <<"letsencrypt">>]) }

RawSpec(c, d, rs) == [ingressClassName |-> c, defaultBackend |-> d, rules |-> [list |-> rs]]
RawDefaultBackends == {None} \cup { Some(b) : b \in RawBackends }
FixturePath == [path |-> "/", pathType |-> "Prefix",
                backend |-> [service |-> Some(RawService(AppSvc)), resource |-> None]]
FixtureRules == << [host |-> "example.com", http |-> Some([paths |-> <<FixturePath>>])] >>

\* Every class and default backend with no rules and with the fixture's rule,
\* and every list of rules with the fixture's class and no default backend.
ClassSpecs ==
    { RawSpec(c, d, rs) : c \in ClassNames, d \in RawDefaultBackends,
                          rs \in {<<>>, FixtureRules} }
RawSpecs ==
    ClassSpecs \cup { RawSpec(Some(Nginx), None, rs) : rs \in RawRuleSeqs }

\* A spec whose rules field is a scalar instead of a list: it has the kind of
\* an Ingress but does not convert.
MalformedSpec ==
    [ingressClassName |-> None, defaultBackend |-> None, rules |-> [scalar |-> "true"]]

FixtureSpec == RawSpec(Some(Nginx), None, FixtureRules)

Doc(g, n, a, s) == [gvk |-> g, name |-> n, annotations |-> a, spec |-> s]

FixtureDoc == Doc(ingressGVC, FixtureName, None, FixtureSpec)

\* Every name with the fixture's body, and the fixture's names with every body.
NameDocs == { Doc(ingressGVC, n, None, FixtureSpec) : n \in RawNames }
StructDocs ==
    { Doc(ingressGVC, FixtureName, None, s) : s \in RawSpecs }
      \cup { Doc(ingressGVC, FixtureName, a, s) : a \in AnnotationMaps, s \in ClassSpecs }
MalformedDocs == { Doc(ingressGVC, n, None, MalformedSpec) : n \in {FixtureName, AppIngress} }
OtherKindDocs == { Doc(g, FixtureName, None, FixtureSpec) : g \in OtherGVKs }
ServiceDoc == CHOOSE d \in OtherKindDocs : d.gvk.Kind = "Service"
Docs == NameDocs \cup StructDocs \cup MalformedDocs \cup OtherKindDocs

\* Documents for two concurrent invocations: three names, two of which derive
\* the same key, with and without a class, rules and annotations.
ConcNames == {FixtureName, AppIngress, <<"a", "-", "b">>}
ConcSpecs ==
    { [ingressClassName |-> c, defaultBackend |-> None, rules |-> [list |-> rs]] :
        c \in {None, Some(Nginx)},
        rs \in {<<>>, FixtureSpec.rules.list} }
ConcDocs ==
    { Doc(ingressGVC, n, a, s) : n \in ConcNames, a \in AnnotationMaps, s \in ConcSpecs }
      \cup { Doc(ingressGVC, AppIngress, None, MalformedSpec) }
      \cup { ServiceDoc }

\* ------------------------------------------------------- typed conversion
\* runtime.DefaultUnstructuredConverter.FromUnstructured into
\* networkingv1.Ingress: JSON keys become the Go fields, absent keys nil
\* pointers; a field of the wrong shape fails the conversion.
Convertible(o) == "list" \in DOMAIN o.spec.rules

ToBackend(b) ==
    [Service |-> IF IsSome(b.service)
                 THEN Some([Name |-> Val(b.service).name, Port |-> Val(b.service).port])
                 ELSE None,
     Resource |-> b.resource]

ToPath(q) == [Path |-> q.path, PathType |-> q.pathType, Backend |-> ToBackend(q.backend)]

ToRule(r) ==
    [Host |-> r.host,
     HTTP |-> IF IsSome(r.http)
              THEN Some([Paths |-> [j \in 1..Len(Val(r.http).paths) |->
                                        ToPath(Val(r.http).paths[j])]])
              ELSE None]

FromUnstructured(o) ==
    [ObjectMeta |-> [Name |-> o.name, Annotations |-> o.annotations],
     Spec |-> [IngressClassName |-> o.spec.ingressClassName,
               DefaultBackend |-> IF IsSome(o.spec.defaultBackend)
                                  THEN Some(ToBackend(Val(o.spec.defaultBackend)))
                                  ELSE None,
               Rules |-> [i \in 1..Len(o.spec.rules.list) |-> ToRule(o.spec.rules.list[i])]]]

ConversionError == [msg |-> <<"json: cannot unmarshal string into Go struct field">>,
                    wraps |-> None]

\* fmt.Errorf("%w: unable to cast to ingress", err)
CastError(err) == [msg |-> err.msg \o <<": unable to cast to ingress">>, wraps |-> Some(err)]

\* ------------------------------------------------------------- the steps
\* processIngressSpec: template the service name of the default backend and
\* of every path of every HTTP rule.
RewriteBackend(am, b) ==
    IF IsSome(b.Service)
    THEN [b EXCEPT !.Service = Some([Val(b.Service) EXCEPT
                                        !.Name = TemplatedName(am, Val(b.Service).Name)])]
    ELSE b

RewriteRule(am, r) ==
    IF IsSome(r.HTTP)
    THEN [r EXCEPT !.HTTP = Some([Paths |->
            [j \in 1..Len(Val(r.HTTP).Paths) |->
                [Val(r.HTTP).Paths[j] EXCEPT
                    !.Backend = RewriteBackend(am, Val(r.HTTP).Paths[j].Backend)]]])]
    ELSE r

\* A rewrite that walks the rules and forgets the default backend.
processIngressSpecRulesOnly(am, s) ==
    [s EXCEPT !.Rules = [i \in 1..Len(s.Rules) |-> RewriteRule(am, s.Rules[i])]]

processIngressSpec(am, s) ==
    [s EXCEPT !.DefaultBackend = IF IsSome(s.DefaultBackend)
                                 THEN Some(RewriteBackend(am, Val(s.DefaultBackend)))
                                 ELSE None,
              !.Rules = [i \in 1..Len(s.Rules) |-> RewriteRule(am, s.Rules[i])]]

\* An enabled flag written at the root of the tree, the key forgotten.
processIngressEnabledAtRoot(key, ingr, vals) ==
    SetNestedField(vals, BoolLeaf(TRUE), <<IngressSeg, EnabledSeg>>)

\* An enabled flag computed from the ingress: true when it has rules.
processIngressEnabledFromRules(key, ingr, vals) ==
    SetNestedField(vals, BoolLeaf(Len(ingr.Spec.Rules) > 0),
                   <<key, IngressSeg, EnabledSeg>>)

\* processIngressEnabled: true, whatever the ingress holds.
processIngressEnabled(key, ingr, vals) ==
    SetNestedField(vals, BoolLeaf(TRUE), <<key, IngressSeg, EnabledSeg>>)

ClassNameExpr(key) == <<"{{.Values.">> \o key \o <<".ingress.className}}">>

\* A class rewrite that leaves an absent class absent.
processIngressClassNameKeepAbsent(key, ingSpec, vals) ==
    LET className == IF IsSome(ingSpec.IngressClassName)
                     THEN Val(ingSpec.IngressClassName) ELSE <<>>
    IN  [values |-> SetNestedField(vals, StringLeaf(className),
                                   <<key, IngressSeg, ClassNameSeg>>),
         spec |-> IF IsSome(ingSpec.IngressClassName)
                  THEN [ingSpec EXCEPT !.IngressClassName = Some(ClassNameExpr(key))]
                  ELSE ingSpec,
         err |-> None]

\* A class rewrite that reports an absent class as an error.
processIngressClassNameFails(key, ingSpec, vals) ==
    IF IsSome(ingSpec.IngressClassName)
    THEN [values |-> SetNestedField(vals, StringLeaf(Val(ingSpec.IngressClassName)),
                                    <<key, IngressSeg, ClassNameSeg>>),
          spec |-> [ingSpec EXCEPT !.IngressClassName = Some(ClassNameExpr(key))],
          err |-> None]
    ELSE [values |-> vals, spec |-> ingSpec,
          err |-> Some([msg |-> <<"ingress has no class name">>, wraps |-> None])]

\* processIngressClassName: capture the class (or "") into the values, then
\* overwrite the field with the template expression; the error is always nil.
processIngressClassName(key, ingSpec, vals) ==
    LET className == IF IsSome(ingSpec.IngressClassName)
                     THEN Val(ingSpec.IngressClassName) ELSE <<>>
    IN  [values |-> SetNestedField(vals, StringLeaf(className),
                                   <<key, IngressSeg, ClassNameSeg>>),
         spec |-> [ingSpec EXCEPT !.IngressClassName = Some(ClassNameExpr(key))],
         err |-> None]

\* yamlformat.Marshal(map[string]interface{}{"spec": &ing.Spec}, 0)
Marshal(v, indent) == [yaml |-> v, indent |-> indent]
MarshalError == [msg |-> <<"yaml: marshal failed">>, wraps |-> None]

\* processor.ProcessObjMeta with processor.WithAnnotations(av): the rendered
\* metadata block, and the annotations it puts into the sink it was given.
MetaBlock(am, o) == <<"metadata:\n  name: ">> \o TemplatedName(am, o.name)
SinkWrites(sink, o) ==
    IF IsSome(o.annotations)
    THEN [k \in (DOMAIN sink) \cup (DOMAIN Val(o.annotations)) |->
            IF k \in DOMAIN Val(o.annotations)
            THEN StringLeaf(Val(o.annotations)[k]) ELSE sink[k]]
    ELSE sink
MetaError == [msg |-> <<"unable to process object metadata">>, wraps |-> None]

IfExpr(key) == <<"{{- if .Values.">> \o key \o <<".ingress.enabled }}">>
EndExpr == <<"{{- end }}">>
YamlExt == <<".yaml">>

Result(ok, t, e) == [ok |-> ok, template |-> t, err |-> e]

\* The template parsed at package initialisation: field, newline, field, ...
ParsedIngressTempl ==
    << [field |-> "If"], [text |-> "\n"], [field |-> "Meta"], [text |-> "\n"],
       [field |-> "Spec"], [text |-> "\n"], [field |-> "End"] >>

\* ingressTempl.Execute(writer, r.data)
Execute(t, data) ==
    [i \in 1..Len(t) |-> IF "field" \in DOMAIN t[i]
                         THEN [node |-> "field", out |-> data[t[i].field]]
                         ELSE [node |-> "text", out |-> t[i].text]]

\* ---------------------------------------------------------- state machine
\* Two invocations of ingress.Process, each on its own document; pc is the
\* statement an invocation is at, the other per-invocation variables are its
\* locals, calls is the log of the collaborators it has called.
InitLocals ==
    /\ ingressTempl = ParsedIngressTempl
    /\ pc = [p \in Procs |-> "gvk"]
    /\ ing = [p \in Procs |-> None]
    /\ av = [p \in Procs |-> None]
    /\ meta = [p \in Procs |-> None]
    /\ name = [p \in Procs |-> None]
    /\ shortNameCamel = [p \in Procs |-> None]
    /\ values = [p \in Procs |-> None]
    /\ spec = [p \in Procs |-> None]
    /\ result = [p \in Procs |-> None]
    /\ calls = [p \in Procs |-> <<>>]
    /\ written = [p \in Procs |-> None]

\* One invocation on any document, next to one on a document of another kind.
Init ==
    /\ appMeta \in AppMetas
    /\ obj \in { [p \in Procs |-> IF p = 1 THEN d ELSE ServiceDoc] : d \in Docs }
    /\ InitLocals

\* Two invocations of the same chart running concurrently.
InitConc ==
    /\ appMeta \in AppMetas
    /\ obj \in [Procs -> ConcDocs]
    /\ InitLocals

Return(p, r) ==
    /\ result' = [result EXCEPT ![p] = Some(r)]
    /\ pc' = [pc EXCEPT ![p] = "done"]

Goto(p, l) == pc' = [pc EXCEPT ![p] = l]

Called(p, c) == calls' = [calls EXCEPT ![p] = Append(@, c)]

\* A check of the kind alone, group and version ignored.
AppliesKindOnly(o) == o.gvk.Kind = ingressGVC.Kind

\* line 39: obj.GroupVersionKind() != ingressGVC
Applies(o) == o.gvk = ingressGVC

\* lines 39-41
CheckGVK(p) ==
    /\ pc[p] = "gvk"
    /\ IF Applies(obj[p])
       THEN Goto(p, "convert") /\ UNCHANGED result
       ELSE Return(p, Result(FALSE, None, None))
    /\ UNCHANGED <<appMeta, ingressTempl, obj, ing, av, meta, name, shortNameCamel,
                   values, spec, calls, written>>

\* lines 42-46
Convert(p) ==
    /\ pc[p] = "convert"
    /\ IF Convertible(obj[p])
       THEN /\ ing' = [ing EXCEPT ![p] = Some(FromUnstructured(obj[p]))]
            /\ Goto(p, "meta")
            /\ UNCHANGED result
       ELSE /\ Return(p, Result(TRUE, None, Some(CastError(ConversionError))))
            /\ UNCHANGED ing
    /\ UNCHANGED <<appMeta, ingressTempl, obj, av, meta, name, shortNameCamel,
                   values, spec, calls, written>>

\* lines 48-52: the metadata processor fills the sink and renders, or fails.
ObjMeta(p) ==
    /\ pc[p] = "meta"
    /\ Called(p, "ProcessObjMeta")
    /\ \E failed \in BOOLEAN :
         IF failed
         THEN /\ av' = [av EXCEPT ![p] = Some(EmptyValues)]
              /\ Return(p, Result(TRUE, None, Some(MetaError)))
              /\ UNCHANGED meta
         ELSE /\ av' = [av EXCEPT ![p] = Some(SinkWrites(EmptyValues, obj[p]))]
              /\ meta' = [meta EXCEPT ![p] = Some(MetaBlock(appMeta, obj[p]))]
              /\ Goto(p, "name")
              /\ UNCHANGED result
    /\ UNCHANGED <<appMeta, ingressTempl, obj, ing, name, shortNameCamel,
                   values, spec, written>>

\* lines 53-55
DeriveNames(p) ==
    /\ pc[p] = "name"
    /\ name' = [name EXCEPT ![p] = Some(TrimName(appMeta, obj[p].name))]
    /\ shortNameCamel' = [shortNameCamel EXCEPT ![p] =
                            Some(DeriveShortNameCamel(TrimName(appMeta, obj[p].name)))]
    /\ calls' = [calls EXCEPT ![p] = @ \o <<"TrimName", "ToLowerCamel">>]
    /\ Goto(p, "spec")
    /\ UNCHANGED <<appMeta, ingressTempl, obj, ing, av, meta, values, spec, result, written>>

\* line 57
RewriteSpec(p) ==
    /\ pc[p] = "spec"
    /\ ing' = [ing EXCEPT ![p] = Some([Val(ing[p]) EXCEPT
                                          !.Spec = processIngressSpec(appMeta, @)])]
    /\ Called(p, "TemplatedName")
    /\ Goto(p, "values")
    /\ UNCHANGED <<appMeta, ingressTempl, obj, av, meta, name, shortNameCamel,
                   values, spec, result, written>>

\* One package-level map, emptied by whichever invocation gets here.
NewValuesShared(vals, p) == [q \in Procs |-> Some(EmptyValues)]

\* line 59: values := helmify.Values{}, a map of this invocation only.
NewValues(vals, p) == [vals EXCEPT ![p] = Some(EmptyValues)]

\* lines 59-61
Enabled(p) ==
    /\ pc[p] = "values"
    /\ values' = [NewValues(values, p) EXCEPT
                     ![p] = Some(processIngressEnabled(Val(shortNameCamel[p]), Val(ing[p]), Val(@)))]
    /\ Goto(p, "class")
    /\ UNCHANGED <<appMeta, ingressTempl, obj, ing, av, meta, name, shortNameCamel,
                   spec, result, calls, written>>

\* lines 63-65
ClassName(p) ==
    /\ pc[p] = "class"
    /\ LET r == processIngressClassName(Val(shortNameCamel[p]), Val(ing[p]).Spec,
                                        Val(values[p]))
       IN  /\ values' = [values EXCEPT ![p] = Some(r.values)]
           /\ ing' = [ing EXCEPT ![p] = Some([Val(ing[p]) EXCEPT !.Spec = r.spec])]
           /\ IF IsSome(r.err)
              THEN Return(p, Result(FALSE, None, r.err))
              ELSE Goto(p, "marshal") /\ UNCHANGED result
    /\ UNCHANGED <<appMeta, ingressTempl, obj, av, meta, name, shortNameCamel,
                   spec, calls, written>>

\* lines 67-70
MarshalSpec(p) ==
    /\ pc[p] = "marshal"
    /\ \E failed \in BOOLEAN :
         IF failed
         THEN Return(p, Result(TRUE, None, Some(MarshalError))) /\ UNCHANGED spec
         ELSE /\ spec' = [spec EXCEPT ![p] = Some(Marshal([spec |-> Val(ing[p]).Spec], 0))]
              /\ Goto(p, "annotations")
              /\ UNCHANGED result
    /\ UNCHANGED <<appMeta, ingressTempl, obj, ing, av, meta, name, shortNameCamel,
                   values, calls, written>>

\* lines 75-89: the ingressResult Process returns.
IngressResult(nm, key, mt, sp, vals) ==
    [name |-> nm \o YamlExt,
     data |-> [If |-> IfExpr(key), Meta |-> mt, Spec |-> sp, End |-> EndExpr],
     values |-> vals]

\* lines 72-89
Finish(p) ==
    /\ pc[p] = "annotations"
    /\ LET vals == SetNestedStringMap(Val(values[p]), obj[p].annotations,
                       <<Val(shortNameCamel[p]), IngressSeg, AnnotationsSeg>>)
       IN  /\ values' = [values EXCEPT ![p] = Some(vals)]
           /\ Return(p, Result(TRUE,
                               Some(IngressResult(Val(name[p]), Val(shortNameCamel[p]),
                                                  Val(meta[p]), Val(spec[p]), vals)),
                               None))
    /\ UNCHANGED <<appMeta, ingressTempl, obj, ing, av, meta, name, shortNameCamel,
                   spec, calls, written>>

\* lines 143-145: the dispatcher writes the template it was given.
Write(p) ==
    /\ pc[p] = "done"
    /\ IsSome(Val(result[p]).template)
    /\ written' = [written EXCEPT ![p] =
                      Some(Execute(ingressTempl, Val(Val(result[p]).template).data))]
    /\ Goto(p, "written")
    /\ UNCHANGED <<appMeta, ingressTempl, obj, ing, av, meta, name, shortNameCamel,
                   values, spec, result, calls>>

Next ==
    \E p \in Procs :
        \/ CheckGVK(p)
        \/ Convert(p)
        \/ ObjMeta(p)
        \/ DeriveNames(p)
        \/ RewriteSpec(p)
        \/ Enabled(p)
        \/ ClassName(p)
        \/ MarshalSpec(p)
        \/ Finish(p)
        \/ Write(p)

Spec == Init /\ [][Next]_vars

SpecConc == InitConc /\ [][Next]_vars

\* ------------------------------------------------------------- properties
Returned(p) == IsSome(result[p])
Succeeded(p) == Returned(p) /\ IsSome(Val(result[p]).template)
Template(p) == Val(Val(result[p]).template)
ConfigKey(p) == Val(shortNameCamel[p])

\* C1: after a successful Process the class field of the rewritten spec (the
\* typed structure and its serialisation in the template) is the expression
\* {{.Values.<configKey>.ingress.className}}, whether or not the input had a
\* class, and <configKey>.ingress.className in the returned values is the
\* input's class, or the empty string when the input had none.
C1_ClassNameTemplated ==
    \A p \in Procs :
        Succeeded(p) =>
            LET expr == <<"{{.Values.">> \o ConfigKey(p) \o <<".ingress.className}}">>
                given == obj[p].spec.ingressClassName
            IN  /\ Val(ing[p]).Spec.IngressClassName = Some(expr)
                /\ Template(p).data.Spec.yaml.spec.IngressClassName = Some(expr)
                /\ NestedField(Template(p).values,
                               <<ConfigKey(p), <<"ingress">>, <<"className">>>>)
                     = Some(StringLeaf(IF IsSome(given) THEN Val(given) ELSE <<>>))

C1_Witness ==
    \E p \in Procs :
        /\ Succeeded(p)
        /\ obj[p].spec.ingressClassName = None
        /\ NestedField(Template(p).values,
                       <<ConfigKey(p), <<"ingress">>, <<"className">>>>)
             = Some(StringLeaf(<<>>))

\* C2: right after processIngressSpec the service name of the default backend
\* and of every path of every HTTP rule is TemplatedName of the original name,
\* applied once; a missing default backend, a backend without a service, a
\* rule without HTTP and empty rule or path lists are left as they were, no
\* error is returned, and every other field of the spec is unchanged.
C2_ServiceNamesTemplated ==
    \A p \in Procs :
        pc[p] = "values" =>
            LET old == FromUnstructured(obj[p]).Spec
                new == Val(ing[p]).Spec
                SameButName(o, n) ==
                    /\ n.Resource = o.Resource
                    /\ IsSome(n.Service) = IsSome(o.Service)
                    /\ IsSome(o.Service) =>
                         /\ Val(n.Service).Port = Val(o.Service).Port
                         /\ Val(n.Service).Name
                              = <<"{{ include \"">> \o appMeta.chartName
                                  \o <<".fullname\" . }}-">>
                                  \o TrimName(appMeta, Val(o.Service).Name)
            IN  /\ ~Returned(p)
                /\ new.IngressClassName = old.IngressClassName
                /\ IsSome(new.DefaultBackend) = IsSome(old.DefaultBackend)
                /\ IsSome(old.DefaultBackend) =>
                     SameButName(Val(old.DefaultBackend), Val(new.DefaultBackend))
                /\ Len(new.Rules) = Len(old.Rules)
                /\ \A i \in 1..Len(old.Rules) :
                     /\ new.Rules[i].Host = old.Rules[i].Host
                     /\ IsSome(new.Rules[i].HTTP) = IsSome(old.Rules[i].HTTP)
                     /\ IsSome(old.Rules[i].HTTP) =>
                          LET ops == Val(old.Rules[i].HTTP).Paths
                              nps == Val(new.Rules[i].HTTP).Paths
                          IN  /\ Len(nps) = Len(ops)
                              /\ \A j \in 1..Len(ops) :
                                   /\ nps[j].Path = ops[j].Path
                                   /\ nps[j].PathType = ops[j].PathType
                                   /\ SameButName(ops[j].Backend, nps[j].Backend)

C2_Witness ==
    \E p \in Procs :
        /\ pc[p] = "values"
        /\ Val(ing[p]).Spec.DefaultBackend = None
        /\ Len(Val(ing[p]).Spec.Rules) = 2
        /\ Val(ing[p]).Spec.Rules[1].HTTP = None
        /\ IsSome(Val(ing[p]).Spec.Rules[2].HTTP)
        /\ Len(Val(Val(ing[p]).Spec.Rules[2].HTTP).Paths) = 2
        /\ IsSome(Val(Val(ing[p]).Spec.Rules[2].HTTP).Paths[1].Backend.Service)
        /\ Val(Val(ing[p]).Spec.Rules[2].HTTP).Paths[2].Backend.Service = None

\* C3: on a document whose group/version/kind is not networking.k8s.io/v1
\* Ingress, Process returns (false, no template, no error) and has done
\* nothing else: no typed structure, no sink, no values tree, no metadata, no
\* derived name, and no call to the metadata processor or the naming utility.
C3_NotApplicable ==
    \A p \in Procs :
        (Returned(p) /\ obj[p].gvk # ingressGVC) =>
            /\ result[p] = Some([ok |-> FALSE, template |-> None, err |-> None])
            /\ ing[p] = None
            /\ av[p] = None
            /\ values[p] = None
            /\ meta[p] = None
            /\ name[p] = None
            /\ shortNameCamel[p] = None
            /\ spec[p] = None
            /\ written[p] = None
            /\ calls[p] = <<>>

C3_Witness ==
    \E p \in Procs :
        /\ Returned(p)
        /\ obj[p].gvk.Kind = "Ingress"
        /\ obj[p].gvk.Version = "v1beta1"
        /\ ~Val(result[p]).ok

\* C6: Process never returns an error together with the not-applicable signal
\* nor together with a template; every return on a document of matching kind
\* carries the accepted signal, and a failed conversion returns (true, no
\* template, an error wrapping the conversion error).
C6_ErrorsAreExplicit ==
    \A p \in Procs :
        Returned(p) =>
            LET r == Val(result[p])
            IN  /\ ~(IsSome(r.err) /\ ~r.ok)
                /\ ~(IsSome(r.err) /\ IsSome(r.template))
                /\ obj[p].gvk = ingressGVC => (r.ok /\ (IsSome(r.err) \/ IsSome(r.template)))
                /\ (obj[p].gvk = ingressGVC /\ "list" \notin DOMAIN obj[p].spec.rules) =>
                     /\ r.ok
                     /\ r.template = None
                     /\ IsSome(r.err)
                     /\ Val(r.err).wraps = Some(ConversionError)
                     /\ Val(r.err).msg = ConversionError.msg \o <<": unable to cast to ingress">>

C6_Witness ==
    \E p \in Procs :
        /\ Returned(p)
        /\ obj[p].gvk = ingressGVC
        /\ "scalar" \in DOMAIN obj[p].spec.rules
        /\ IsSome(Val(result[p]).err)

\* C7: whenever Process accepted the document and produced its output,
\* <configKey>.ingress.enabled is true in the returned values, whatever the
\* document holds, and the template's opening conditional tests that path.
C7_EnabledAlwaysTrue ==
    \A p \in Procs :
        Succeeded(p) =>
            /\ NestedField(Template(p).values,
                           <<ConfigKey(p), <<"ingress">>, <<"enabled">>>>)
                 = Some(BoolLeaf(TRUE))
            /\ Template(p).data.If
                 = <<"{{- if .Values.">> \o ConfigKey(p) \o <<".ingress.enabled }}">>
            /\ IsSome(written[p]) => Val(written[p])[1].out = Template(p).data.If

C7_Witness ==
    \E p \in Procs :
        /\ IsSome(written[p])
        /\ Val(ing[p]).Spec.Rules = <<>>
        /\ NestedField(Template(p).values,
                       <<ConfigKey(p), <<"ingress">>, <<"enabled">>>>)
             = Some(BoolLeaf(TRUE))

\* The dispatcher's merge of two values trees: maps are merged key by key, a
\* leaf of the second tree replaces whatever the first holds at its path.
RECURSIVE DeepUnion(_, _)
DeepUnion(a, b) ==
    [k \in (DOMAIN a) \cup (DOMAIN b) |->
        IF k \notin DOMAIN b THEN a[k]
        ELSE IF k \notin DOMAIN a THEN b[k]
        ELSE IF a[k].t = "map" /\ b[k].t = "map"
             THEN MapNode(DeepUnion(a[k].v, b[k].v))
        ELSE b[k]]

\* C4: every write of an invocation to its values tree is under the root key
\* equal to its configKey; the returned tree holds exactly
\* <configKey>.ingress.{enabled, className, annotations}; and the trees of two
\* invocations with different configKeys have disjoint root keys, so that
\* their deep-union keeps every subtree of both unchanged.
C4_WritesUnderOwnKey ==
    /\ \A p \in Procs :
         IsSome(values[p]) => DOMAIN Val(values[p]) \subseteq {ConfigKey(p)}
    /\ \A p \in Procs :
         Succeeded(p) =>
            LET v == Template(p).values
            IN  /\ DOMAIN v = {ConfigKey(p)}
                /\ v[ConfigKey(p)].t = "map"
                /\ DOMAIN v[ConfigKey(p)].v = {<<"ingress">>}
                /\ v[ConfigKey(p)].v[<<"ingress">>].t = "map"
                /\ DOMAIN v[ConfigKey(p)].v[<<"ingress">>].v
                     = {<<"enabled">>, <<"className">>, <<"annotations">>}
    /\ \A p, q \in Procs :
         (Succeeded(p) /\ Succeeded(q) /\ ConfigKey(p) # ConfigKey(q)) =>
            LET vp == Template(p).values
                vq == Template(q).values
                u == DeepUnion(vp, vq)
            IN  /\ (DOMAIN vp) \cap (DOMAIN vq) = {}
                /\ \A k \in DOMAIN vp : u[k] = vp[k]
                /\ \A k \in DOMAIN vq : u[k] = vq[k]

C4_Witness ==
    /\ \A p \in Procs : Succeeded(p)
    /\ ConfigKey(1) # ConfigKey(2)
    /\ IsSome(obj[1].annotations)
    /\ Cardinality(DOMAIN DeepUnion(Template(1).values, Template(2).values)) = 2

\* What one invocation returns when it runs with nothing else running and no
\* collaborator fails.
ProcessAlone(am, o) ==
    LET typed == FromUnstructured(o)
        nm == TrimName(am, o.name)
        key == DeriveShortNameCamel(nm)
        rewritten == processIngressSpec(am, typed.Spec)
        enabled == processIngressEnabled(key, [typed EXCEPT !.Spec = rewritten], EmptyValues)
        cls == processIngressClassName(key, rewritten, enabled)
        vals == SetNestedStringMap(cls.values, o.annotations,
                                   <<key, IngressSeg, AnnotationsSeg>>)
    IN  Result(TRUE,
               Some(IngressResult(nm, key, MetaBlock(am, o),
                                  Marshal([spec |-> cls.spec], 0), vals)),
               None)

\* C10: under every interleaving of two invocations each one that produces a
\* template returns the filename, template data and values it returns when
\* run alone, and writes the text it writes when run alone; the parsed
\* ingress template both read is the one parsed at initialisation.
C10_InvocationsIndependent ==
    /\ ingressTempl = ParsedIngressTempl
    /\ \A p \in Procs :
         /\ Succeeded(p) => result[p] = Some(ProcessAlone(appMeta, obj[p]))
         /\ IsSome(written[p]) =>
              written[p] = Some(Execute(ParsedIngressTempl,
                                        Val(ProcessAlone(appMeta, obj[p]).template).data))

C10_Witness ==
    /\ \A p \in Procs : IsSome(written[p])
    /\ obj[1] # obj[2]
    /\ Template(1).values # Template(2).values

\* The key every raw name derives under every application, and the letters
\* and digits (case ignored) of what is left of the name once TrimName and the
\* controller-manager- prefix are stripped.
KeyOf ==
    [am \in AppMetas |-> [n \in RawNames |-> DeriveShortNameCamel(TrimName(am, n))]]

AlnumLower(s) ==
    LET kept == SelectSeq(s, LAMBDA c : IsLow(c) \/ IsCap(c) \/ IsNum(c))
    IN  [i \in 1..Len(kept) |-> ToLower(kept[i])]

AlnumOf ==
    [am \in AppMetas |-> [n \in RawNames |-> AlnumLower(ShortName(TrimName(am, n)))]]

\* C5 (as claimed): the key an invocation derives is the key of its raw name,
\* and no other raw name derives that key.
C5_KeysNeverCollide ==
    \A p \in Procs :
        pc[p] = "spec" =>
            /\ ConfigKey(p) = KeyOf[appMeta][obj[p].name]
            /\ \A n \in RawNames :
                 KeyOf[appMeta][n] = ConfigKey(p) => n = obj[p].name

\* C5 (amended): the key an invocation derives is the key of its raw name,
\* and another raw name derives that key only if, once TrimName and the
\* controller-manager- prefix are stripped, it has the same letters and
\* digits in the same order.
C5_KeysCollideOnlyOnSameLetters ==
    \A p \in Procs :
        pc[p] = "spec" =>
            /\ ConfigKey(p) = KeyOf[appMeta][obj[p].name]
            /\ \A n \in RawNames :
                 KeyOf[appMeta][n] = ConfigKey(p) =>
                     AlnumOf[appMeta][n] = AlnumOf[appMeta][obj[p].name]

C5_Witness ==
    \E p \in Procs :
        /\ pc[p] = "spec"
        /\ obj[p].name = ControllerManagerPrefix \o <<"a", "-">>
        /\ ConfigKey(p) = <<"a">>
        /\ KeyOf[appMeta][<<"a", ".">>] = <<"a">>
        /\ KeyOf[appMeta][<<"a", "1">>] = <<"a", "1">>

\* C8 (as claimed): the Ingress controller-manager-app-ingress with class
\* nginx and one rule with one path to app-svc yields configKey appIngress,
\* filename app-ingress.yaml, appIngress.ingress.enabled = true,
\* appIngress.ingress.className = "nginx" and the path's service name
\* TemplatedName("app-svc").
C8_FixtureFilenameShort ==
    \A p \in Procs :
        (Succeeded(p) /\ obj[p] = FixtureDoc) =>
            LET key == <<"a", "p", "p", "I", "n", "g", "r", "e", "s", "s">>
                v == Template(p).values
            IN  /\ ConfigKey(p) = key
                /\ Template(p).name = AppIngress \o <<".yaml">>
                /\ NestedField(v, <<key, <<"ingress">>, <<"enabled">>>>)
                     = Some(BoolLeaf(TRUE))
                /\ NestedField(v, <<key, <<"ingress">>, <<"className">>>>)
                     = Some(StringLeaf(Nginx))
                /\ Val(Val(Template(p).data.Spec.yaml.spec.Rules[1].HTTP)
                         .Paths[1].Backend.Service).Name
                     = TemplatedName(appMeta, AppSvc)

\* C8 (amended): for that Ingress, under an application prefix that is empty,
\* not a prefix of the name, or controller-manager-, Process yields configKey appIngress, the values
\* and the service name as claimed, and the filename <trimmedName>.yaml,
\* which is controller-manager-app-ingress.yaml, and app-ingress.yaml only
\* when the application prefix TrimName strips is itself controller-manager-.
C8_FixtureFilenameTrimmed ==
    \A p \in Procs :
        (Succeeded(p) /\ obj[p] = FixtureDoc
            /\ \/ appMeta.commonPrefix \in {<<>>, ControllerManagerPrefix}
               \/ ~HasPrefix(obj[p].name, appMeta.commonPrefix)) =>
            LET key == <<"a", "p", "p", "I", "n", "g", "r", "e", "s", "s">>
                v == Template(p).values
            IN  /\ ConfigKey(p) = key
                /\ Template(p).name
                     = (IF appMeta.commonPrefix = ControllerManagerPrefix
                        THEN AppIngress ELSE ControllerManagerPrefix \o AppIngress)
                         \o <<".yaml">>
                /\ NestedField(v, <<key, <<"ingress">>, <<"enabled">>>>)
                     = Some(BoolLeaf(TRUE))
                /\ NestedField(v, <<key, <<"ingress">>, <<"className">>>>)
                     = Some(StringLeaf(Nginx))
                /\ Val(Val(Template(p).data.Spec.yaml.spec.Rules[1].HTTP)
                         .Paths[1].Backend.Service).Name
                     = TemplatedName(appMeta, AppSvc)

C8_Witness ==
    \E p \in Procs :
        /\ Succeeded(p)
        /\ obj[p] = FixtureDoc
        /\ appMeta.commonPrefix = <<>>
        /\ Template(p).name = ControllerManagerPrefix \o AppIngress \o <<".yaml">>

\* C9: the values tree a successful Process returns holds every entry the
\* metadata processor wrote into the annotation sink it was given.
C9_SinkEntriesReturned ==
    \A p \in Procs :
        Succeeded(p) =>
            \A k \in DOMAIN Val(av[p]) :
                NestedField(Template(p).values, <<k>>) = Some(Val(av[p])[k])

====
